---------------------------- MODULE Spec2Model ----------------------------
(***************************************************************************)
(* State-machine model of picovoice_demo_mic.c (FishFeeder69): the main    *)
(* thread (recognition loop, trigger callback, shutdown), the servo        *)
(* control-loop threads spawned by start_startServo, and the display /     *)
(* button thread.  Threads interleave at the granularity of one shared     *)
(* read, one shared write or one hardware write per step; the source uses  *)
(* no lock, so every interleaving of these steps is a behaviour.           *)
(* Further specifications follow main from its first statement (SpecBoot), *)
(* let hardware operations fail (SpecIO), step the display operations      *)
(* register write by register write (SpecBus), and apply the renderer to   *)
(* texts (SpecRender) and warpFrame to bytes (SpecWarp).                   *)
(***************************************************************************)
EXTENDS Integers, Sequences, FiniteSets, TLC

(***************************************************************************)
(* Bounds of the model.                                                    *)
(***************************************************************************)
\* number of inference callbacks the recognition loop delivers
MaxTriggers == 2
\* the count of consecutive pressed reads saturates here
MaxHold == 2
\* longest text handed to displayMode
MaxText == 3
MaxFds == 4

(***************************************************************************)
(* Program constants.                                                      *)
(***************************************************************************)
PWM_PERIOD == 20000000
PWM_ENABLE == 1
DUTY_HOLD == 2000000
DUTY_RELEASE == 1000000
HOLD_MS_DEFAULT == 1000
HOLD_MS_MODE2 == 10000
USER_AFTER_MS == 1000
numberOfMatrixRows == 8
numberOfMatrixCols == 8
SYS_SETUP_REG == 33
DISPLAY_SETUP_REG == 129

Threads == 1..MaxTriggers
NoThread == 0
NoMode == -1
\* values scanf may store in timeToSleep (seconds)
Delays == {0, 3}
\* values readButton may return
Levels == {0, 1}
NoRead == -1
NoByte == -1

VARIABLES
    mode,           \* static int mode
    stopServo,      \* static bool stopServo
    stopButton,     \* static bool stopButton
    servoTurnedOn,  \* static bool servoTurnedOn (the actuator busy flag)
    threadServo,    \* static pthread_t threadServo: the last servo thread created
    spc,            \* position of each servo thread in turningServoMotor
    todo,           \* per servo thread: the statements of its profile still to run
    dmode,          \* per servo thread: the branch of the mode dispatch it took
    cycles,         \* per servo thread: iterations of its while loop begun
    dpc,            \* position of the display thread in displayButton
    mpc,            \* position of the main thread
    ncalls,         \* inference callbacks delivered so far
    inference,      \* inference->is_understood of the last callback delivered
    pwm,            \* the PWM attribute files: last value written to each
    matrix,         \* what the last display operation wrote to the LED matrix
    pwmLog,         \* PWM writes and waits of the cycle in flight, while it is alone
    soloT,          \* the servo thread whose cycle has been alone so far, or NoThread
    lastRead,       \* last value yellowButtonPressed read
    runLen,         \* pressed reads in the current / last run of pressed reads
    pressMode,      \* the value of mode when that run began
    modeTrail,      \* the up to three previous values of mode, latest first
    iterLog,        \* what the current displayButton iteration has done
    faceSeen,       \* the display thread has read servoTurnedOn true since it was raised
    rpc,            \* position of the display operation followed symbol by symbol
    text,           \* the text handed to displayMode
    display,        \* char* display: the symbols of the text not consumed yet
    col,            \* int col of displayMatrix
    logicalFrameArr,    \* static unsigned char logicalFrameArr[8]
    physicalFrameArr,   \* static unsigned char physicalFrameArr[16], its first 8 bytes
    charRowByRowBits,   \* static char* charRowByRowBits: the rows it points at
    charCurrentColumns, \* static int charCurrentColumns
    examined,       \* the highest entry index (from 1) a search has examined
    i2cLog,         \* the register writes of the display operation
    warpArg,        \* the argument of a call of warpFrame
    warpRet,        \* its result
    exportLog,      \* what has been written to /sys/class/gpio/export
    setupLog,       \* the writes to the setup registers of the display
    failure,        \* the first hardware operation that failed, or "none"
    regs,           \* per row register of the display: the operation whose write it holds
    drow,           \* rows the display thread has written in the operation it is in
    srow,           \* per servo thread: rows it has written in its clearDisplay
    i2cFileDescs    \* descriptors initI2cBus has opened and nothing has closed

vars == <<mode, stopServo, stopButton, servoTurnedOn, threadServo, spc, todo,
          dmode, cycles, dpc, mpc, ncalls, inference, pwm, matrix, pwmLog, soloT,
          lastRead, runLen, pressMode, modeTrail, iterLog, faceSeen,
          rpc, text, display, col, logicalFrameArr, physicalFrameArr,
          charRowByRowBits, charCurrentColumns, examined, i2cLog, warpArg, warpRet,
          exportLog, setupLog, failure, regs, drow, srow, i2cFileDescs>>

\* the variables of the threads of the program
progVars == <<mode, stopServo, stopButton, servoTurnedOn, threadServo, spc, todo,
              dmode, cycles, dpc, mpc, ncalls, inference, pwm, matrix, pwmLog, soloT,
              lastRead, runLen, pressMode, modeTrail, iterLog, faceSeen,
              exportLog, setupLog, failure, regs, drow, srow>>

\* the variables of the renderer followed symbol by symbol
renderVars == <<rpc, text, display, col, logicalFrameArr, physicalFrameArr,
                charRowByRowBits, charCurrentColumns, examined, i2cLog, warpArg, warpRet>>

servoVars == <<stopServo, servoTurnedOn, threadServo, spc, todo, dmode,
               cycles, pwm, pwmLog, soloT, faceSeen>>
buttonVars == <<lastRead, runLen, pressMode, modeTrail>>
displayVars == <<dpc, iterLog>>
mainVars == <<mpc, ncalls, inference, stopButton>>

\* startup and hardware failure
ioVars == <<exportLog, setupLog, failure>>

\* the row registers of the display, the writers' positions in them and the
\* descriptors open on the bus
busVars == <<regs, drow, srow, i2cFileDescs>>

\* what no step of a thread after startup changes while the hardware works
auxVars == <<renderVars, ioVars>>

(***************************************************************************)
(* Statements of the release profiles, in program order.                   *)
(***************************************************************************)
writeTo(attr, value) == [op |-> "write", attr |-> attr, val |-> value]

sleepForMs(ms) == [op |-> "sleep", attr |-> "ms", val |-> ms]

scanfStmt == [op |-> "scanf", attr |-> "timeToSleep", val |-> 0]

defaultRelease ==
    << writeTo("period", PWM_PERIOD),
       writeTo("enable", PWM_ENABLE),
       writeTo("duty_cycle", DUTY_HOLD),
       sleepForMs(HOLD_MS_DEFAULT),
       writeTo("duty_cycle", DUTY_RELEASE) >>

userBasedRelease(timeToSleep) ==
    << sleepForMs(timeToSleep * 1000) >> \o defaultRelease

\* mode2Release with the hold wait of defaultRelease
mode2Release_shortHold ==
    << writeTo("period", PWM_PERIOD),
       writeTo("enable", PWM_ENABLE),
       writeTo("duty_cycle", DUTY_HOLD),
       sleepForMs(HOLD_MS_DEFAULT),
       writeTo("duty_cycle", DUTY_RELEASE) >>

mode2Release ==
    << writeTo("period", PWM_PERIOD),
       writeTo("enable", PWM_ENABLE),
       writeTo("duty_cycle", DUTY_HOLD),
       sleepForMs(HOLD_MS_MODE2),
       writeTo("duty_cycle", DUTY_RELEASE) >>

\* the mode == 1 branch: printf, scanf, userBasedRelease, sleepForMs(1000)
userBranch == << scanfStmt >>

\* switchMode without the wrap from 2 to 0
switchMode_noWrap(m) ==
    IF m = 0 THEN 1
    ELSE IF m = 1 THEN 2
    ELSE m

switchMode(m) ==
    IF m = 0 THEN 1
    ELSE IF m = 1 THEN 2
    ELSE IF m = 2 THEN 0
    ELSE m

\* the label displayButton passes to displayMode for a mode value
modeLabel(m) ==
    IF m = 0 THEN "M0"
    ELSE IF m = 1 THEN "M1"
    ELSE IF m = 2 THEN "M2"
    ELSE "none"

Live(t) == spc[t] \notin {"none", "done"}

\* the row registers once an operation that has written the first `written`
\* rows writes the rows left, each a writeI2cReg, with what it shows
writeI2cReg_rest(shown, written) ==
    [i \in 1..numberOfMatrixRows |-> IF i > written THEN shown ELSE regs[i]]

Running == mpc # "exit"

\* initI2cBus: open(bus, O_RDWR) hands out one more descriptor (no close
\* follows it anywhere in the program); counted up to MaxFds
initI2cBus == IF i2cFileDescs < MaxFds THEN i2cFileDescs + 1 ELSE i2cFileDescs

\* the descriptors open once a display operation has written its rows after
\* the first `written' ones: it calls initI2cBus before its first write
initI2cBus_before(written) == IF written = 0 THEN initI2cBus ELSE i2cFileDescs

StaticsInit ==
    /\ mode = 0
    /\ stopServo = FALSE
    /\ stopButton = FALSE
    /\ servoTurnedOn = FALSE
    /\ threadServo = NoThread
    /\ spc = [t \in Threads |-> "none"]
    /\ todo = [t \in Threads |-> << >>]
    /\ dmode = [t \in Threads |-> NoMode]
    /\ cycles = [t \in Threads |-> 0]
    /\ ncalls = 0
    /\ inference = "none"
    /\ pwm = [period |-> 0, enable |-> 0, duty_cycle |-> 0]
    /\ matrix = "unset"
    /\ pwmLog = << >>
    /\ soloT = NoThread
    /\ lastRead = NoRead
    /\ runLen = 0
    /\ pressMode = 0
    /\ modeTrail = << >>
    /\ iterLog = << >>
    /\ faceSeen = FALSE
    /\ failure = "none"
    /\ regs = [i \in 1..numberOfMatrixRows |-> "unset"]
    /\ drow = 0
    /\ srow = [t \in Threads |-> 0]

\* what exportYellowButton writes: fprintf(pFile, "%f", 27)
exportYellowButton_text == "27.000000"

\* what initializeStartRegisters writes
initializeStartRegisters_writes ==
    << [reg |-> SYS_SETUP_REG, val |-> 0], [reg |-> DISPLAY_SETUP_REG, val |-> 0] >>

\* descriptors main has opened when it starts the display thread:
\* initializeStartRegisters (759) and its own initI2cBus (761)
main_i2cFileDescs == 2

\* the threads once main has called display_startButton
ProgramInit ==
    /\ StaticsInit
    /\ i2cFileDescs = main_i2cFileDescs
    /\ dpc = "while"
    /\ mpc = "listen"
    /\ exportLog = << exportYellowButton_text >>
    /\ setupLog = initializeStartRegisters_writes


(***************************************************************************)
(* Main thread: picovoice_main's recognition loop, then shutdown.          *)
(***************************************************************************)
\* the first thread slot pthread_create has not used yet
newThread == CHOOSE t \in Threads : spc[t] = "none" /\ \A u \in 1..(t - 1) : spc[u] # "none"

\* start_startServo: stopServo = false; pthread_create(&threadServo, ...)
start_startServo ==
    /\ stopServo' = FALSE
    /\ threadServo' = newThread
    /\ spc' = [spc EXCEPT ![newThread] = "while"]
    /\ soloT' = NoThread
    /\ pwmLog' = << >>
    /\ UNCHANGED <<servoTurnedOn, todo, dmode, cycles, pwm, faceSeen>>

\* inference_callback with the test of is_understood left out
inference_callback_noTest(is_understood) ==
    /\ mpc = "listen"
    /\ ncalls < MaxTriggers
    /\ ncalls' = ncalls + 1
    /\ inference' = IF is_understood THEN "understood" ELSE "not_understood"
    /\ start_startServo
    /\ UNCHANGED <<mode, mpc, stopButton, matrix, buttonVars, displayVars, auxVars, busVars>>

\* inference_callback: start the servo iff the inference was understood
inference_callback(is_understood) ==
    /\ mpc = "listen"
    /\ ncalls < MaxTriggers
    /\ ncalls' = ncalls + 1
    /\ inference' = IF is_understood THEN "understood" ELSE "not_understood"
    /\ IF is_understood THEN start_startServo ELSE UNCHANGED servoVars
    /\ UNCHANGED <<mode, mpc, stopButton, matrix, buttonVars, displayVars, auxVars, busVars>>

\* SIGINT ends the recognition loop; picovoice_main cleans up and returns
picovoice_main_return ==
    /\ mpc = "listen"
    /\ mpc' = "display_stopButton"
    /\ UNCHANGED <<mode, ncalls, inference, stopButton, matrix, servoVars, buttonVars, displayVars, auxVars, busVars>>

\* display_stopButton: stopButton = true
display_stopButton_set ==
    /\ mpc = "display_stopButton"
    /\ stopButton' = TRUE
    /\ mpc' = "join"
    /\ UNCHANGED <<mode, ncalls, inference, matrix, servoVars, buttonVars, displayVars, auxVars, busVars>>

\* display_stopButton: pthread_join(threadButton); then main returns and the
\* process, with every thread still running in it, ends
display_stopButton_join ==
    /\ mpc = "join"
    /\ dpc = "done"
    /\ mpc' = "exit"
    /\ UNCHANGED <<mode, ncalls, inference, stopButton, matrix, servoVars, buttonVars, displayVars, auxVars, busVars>>

(***************************************************************************)
(* Servo thread t: turningServoMotor.                                      *)
(***************************************************************************)
servoFrame == <<mode, buttonVars, displayVars, mainVars, auxVars>>

\* while(!stopServo)
turningServoMotor_while(t) ==
    /\ Running
    /\ spc[t] = "while"
    /\ IF stopServo
       THEN /\ spc' = [spc EXCEPT ![t] = "done"]
            /\ UNCHANGED <<cycles, soloT, pwmLog>>
       ELSE /\ spc' = [spc EXCEPT ![t] = "if0"]
            /\ cycles' = [cycles EXCEPT ![t] = @ + 1]
            /\ soloT' = IF \A u \in Threads \ {t} : ~Live(u) THEN t ELSE NoThread
            /\ pwmLog' = << >>
    /\ UNCHANGED <<stopServo, servoTurnedOn, threadServo, todo, dmode,
                   pwm, faceSeen, matrix>>
    /\ UNCHANGED <<servoFrame, busVars>>

\* the dispatch with if(mode = 0): the test assigns 0 and is false
turningServoMotor_if0_assign(t) ==
    /\ Running
    /\ spc[t] = "if0"
    /\ mode' = 0
    /\ spc' = [spc EXCEPT ![t] = "if1"]
    /\ UNCHANGED <<stopServo, servoTurnedOn, threadServo, todo, dmode, cycles, pwm,
                   pwmLog, soloT, faceSeen, matrix>>
    /\ UNCHANGED <<buttonVars, displayVars, mainVars, auxVars, busVars>>

\* if(mode == 0) defaultRelease();
turningServoMotor_if0(t) ==
    /\ Running
    /\ spc[t] = "if0"
    /\ IF mode = 0
       THEN /\ spc' = [spc EXCEPT ![t] = "profile"]
            /\ todo' = [todo EXCEPT ![t] = defaultRelease]
            /\ dmode' = [dmode EXCEPT ![t] = 0]
       ELSE /\ spc' = [spc EXCEPT ![t] = "if1"]
            /\ UNCHANGED <<todo, dmode>>
    /\ UNCHANGED <<stopServo, servoTurnedOn, threadServo, cycles, pwm, pwmLog,
                   soloT, faceSeen, matrix>>
    /\ UNCHANGED <<servoFrame, busVars>>

\* else if (mode == 1) { printf; scanf; userBasedRelease; sleepForMs(1000); }
turningServoMotor_if1(t) ==
    /\ Running
    /\ spc[t] = "if1"
    /\ IF mode = 1
       THEN /\ spc' = [spc EXCEPT ![t] = "profile"]
            /\ todo' = [todo EXCEPT ![t] = userBranch]
            /\ dmode' = [dmode EXCEPT ![t] = 1]
       ELSE /\ spc' = [spc EXCEPT ![t] = "if2"]
            /\ UNCHANGED <<todo, dmode>>
    /\ UNCHANGED <<stopServo, servoTurnedOn, threadServo, cycles, pwm, pwmLog,
                   soloT, faceSeen, matrix>>
    /\ UNCHANGED <<servoFrame, busVars>>

\* else if (mode == 2) mode2Release();  -- no else: no branch may be taken
turningServoMotor_if2(t) ==
    /\ Running
    /\ spc[t] = "if2"
    /\ IF mode = 2
       THEN /\ spc' = [spc EXCEPT ![t] = "profile"]
            /\ todo' = [todo EXCEPT ![t] = mode2Release]
            /\ dmode' = [dmode EXCEPT ![t] = 2]
       ELSE /\ spc' = [spc EXCEPT ![t] = "clearDisplay"]
            /\ UNCHANGED <<todo, dmode>>
    /\ UNCHANGED <<stopServo, servoTurnedOn, threadServo, cycles, pwm, pwmLog,
                   soloT, faceSeen, matrix>>
    /\ UNCHANGED <<servoFrame, busVars>>

\* what is left of the branch after its first statement s has run; scanf
\* stores d in timeToSleep and the rest of the mode == 1 branch follows
restAfter(s, rest, d) ==
    IF s.op = "scanf"
    THEN userBasedRelease(d) \o << sleepForMs(USER_AFTER_MS) >>
    ELSE rest

\* one statement of the branch taken: a PWM attribute write, a sleep or the scanf
turningServoMotor_profile(t) ==
    /\ Running
    /\ spc[t] = "profile"
    /\ todo[t] # << >>
    /\ LET s == Head(todo[t]) IN
       \E d \in (IF s.op = "scanf" THEN Delays ELSE {0}) :
          LET rest == restAfter(s, Tail(todo[t]), d) IN
          /\ todo' = [todo EXCEPT ![t] = rest]
          /\ pwm' = IF s.op = "write" THEN [pwm EXCEPT ![s.attr] = s.val] ELSE pwm
          /\ pwmLog' = IF soloT = t /\ s.op # "scanf" THEN Append(pwmLog, s) ELSE pwmLog
          /\ spc' = IF rest = << >> THEN [spc EXCEPT ![t] = "clearDisplay"] ELSE spc
    /\ UNCHANGED <<stopServo, servoTurnedOn, threadServo, dmode, cycles, soloT,
                   faceSeen, matrix>>
    /\ UNCHANGED <<servoFrame, busVars>>

\* clearDisplay();
turningServoMotor_clearDisplay(t) ==
    /\ Running
    /\ spc[t] = "clearDisplay"
    /\ matrix' = "clear"
    /\ regs' = writeI2cReg_rest("clear", srow[t])
    /\ i2cFileDescs' = initI2cBus_before(srow[t])
    /\ srow' = [srow EXCEPT ![t] = 0]
    /\ spc' = [spc EXCEPT ![t] = "servoTurnedOn"]
    /\ UNCHANGED <<stopServo, servoTurnedOn, threadServo, todo, dmode, cycles,
                   pwm, pwmLog, soloT, faceSeen, drow>>
    /\ UNCHANGED servoFrame

\* servoTurnedOn = true;
turningServoMotor_servoTurnedOn(t) ==
    /\ Running
    /\ spc[t] = "servoTurnedOn"
    /\ servoTurnedOn' = TRUE
    /\ faceSeen' = IF servoTurnedOn THEN faceSeen ELSE FALSE
    /\ spc' = [spc EXCEPT ![t] = "sleepForMs"]
    /\ UNCHANGED <<stopServo, threadServo, todo, dmode, cycles, pwm, pwmLog,
                   soloT, matrix>>
    /\ UNCHANGED <<servoFrame, busVars>>

\* sleepForMs(100): the settle delay
turningServoMotor_sleepForMs(t) ==
    /\ Running
    /\ spc[t] = "sleepForMs"
    /\ spc' = [spc EXCEPT ![t] = "stop_stopServo"]
    /\ UNCHANGED <<stopServo, servoTurnedOn, threadServo, todo, dmode, cycles,
                   pwm, pwmLog, soloT, faceSeen, matrix>>
    /\ UNCHANGED <<servoFrame, busVars>>

\* stop_stopServo without servoTurnedOn = false
stop_stopServo_noClear(t) ==
    /\ Running
    /\ spc[t] = "stop_stopServo"
    /\ UNCHANGED servoTurnedOn
    /\ stopServo' = TRUE
    /\ spc' = [spc EXCEPT ![t] = "pthread_join"]
    /\ UNCHANGED <<threadServo, todo, dmode, cycles, pwm, pwmLog, soloT,
                   faceSeen, matrix>>
    /\ UNCHANGED <<servoFrame, busVars>>

\* stop_stopServo: servoTurnedOn = false; stopServo = true;
stop_stopServo(t) ==
    /\ Running
    /\ spc[t] = "stop_stopServo"
    /\ servoTurnedOn' = FALSE
    /\ stopServo' = TRUE
    /\ spc' = [spc EXCEPT ![t] = "pthread_join"]
    /\ UNCHANGED <<threadServo, todo, dmode, cycles, pwm, pwmLog, soloT,
                   faceSeen, matrix>>
    /\ UNCHANGED <<servoFrame, busVars>>

\* stop_stopServo: pthread_join(threadServo, NULL), called by the servo thread
\* itself.  Joining oneself fails at once (EDEADLK); joining another thread
\* blocks until that thread has returned.
stop_stopServo_join(t) ==
    /\ Running
    /\ spc[t] = "pthread_join"
    /\ threadServo = t \/ spc[threadServo] = "done"
    /\ spc' = [spc EXCEPT ![t] = "while"]
    /\ dmode' = [dmode EXCEPT ![t] = NoMode]
    /\ UNCHANGED <<stopServo, servoTurnedOn, threadServo, todo, cycles, pwm,
                   pwmLog, soloT, faceSeen, matrix>>
    /\ UNCHANGED <<servoFrame, busVars>>

(***************************************************************************)
(* Display thread: displayButton.                                          *)
(***************************************************************************)
displayFrame == <<stopServo, threadServo, spc, todo, dmode, cycles, pwm, pwmLog,
                  soloT, servoTurnedOn, mainVars, auxVars>>

\* the value yellowButtonPressed reads, recorded
readButton(r) ==
    /\ lastRead' = r
    /\ runLen' = IF r # 1 THEN runLen
                 ELSE IF lastRead # 1 THEN 1
                 ELSE IF runLen < MaxHold THEN runLen + 1 ELSE runLen
    /\ pressMode' = IF r = 1 /\ lastRead # 1 THEN mode ELSE pressMode

\* while(!stopButton)
displayButton_while ==
    /\ Running
    /\ dpc = "while"
    /\ dpc' = IF stopButton THEN "done" ELSE "clearDisplay"
    /\ iterLog' = << >>
    /\ UNCHANGED <<mode, matrix, faceSeen, buttonVars>>
    /\ UNCHANGED <<displayFrame, busVars>>

\* clearDisplay();
displayButton_clearDisplay ==
    /\ Running
    /\ dpc = "clearDisplay"
    /\ matrix' = "clear"
    /\ regs' = writeI2cReg_rest("clear", drow)
    /\ i2cFileDescs' = initI2cBus_before(drow)
    /\ drow' = 0
    /\ dpc' = "yellowButtonPressed"
    /\ UNCHANGED <<mode, iterLog, faceSeen, buttonVars, srow>>
    /\ UNCHANGED displayFrame

\* if(yellowButtonPressed())
displayButton_yellowButtonPressed ==
    /\ Running
    /\ dpc = "yellowButtonPressed"
    /\ \E r \in Levels :
          /\ readButton(r)
          /\ dpc' = IF r = 1 THEN "debounce" ELSE "servoTurnedOn"
    /\ UNCHANGED <<mode, matrix, modeTrail, iterLog, faceSeen>>
    /\ UNCHANGED <<displayFrame, busVars>>

\* the press handled without the wait for the release
displayButton_debounce_noWait ==
    /\ Running
    /\ dpc = "debounce"
    /\ dpc' = "switchMode"
    /\ UNCHANGED <<mode, matrix, buttonVars, iterLog, faceSeen>>
    /\ UNCHANGED <<displayFrame, busVars>>

\* while(yellowButtonPressed()){};
displayButton_debounce ==
    /\ Running
    /\ dpc = "debounce"
    /\ \E r \in Levels :
          /\ readButton(r)
          /\ dpc' = IF r = 1 THEN "debounce" ELSE "switchMode"
    /\ UNCHANGED <<mode, matrix, modeTrail, iterLog, faceSeen>>
    /\ UNCHANGED <<displayFrame, busVars>>

\* switchMode(); sleepForMs(100);
displayButton_switchMode ==
    /\ Running
    /\ dpc = "switchMode"
    /\ mode' = switchMode(mode)
    /\ modeTrail' = SubSeq(<< mode >> \o modeTrail, 1,
                           IF Len(modeTrail) < 3 THEN Len(modeTrail) + 1 ELSE 3)
    /\ dpc' = "servoTurnedOn"
    /\ UNCHANGED <<matrix, lastRead, runLen, pressMode, iterLog, faceSeen>>
    /\ UNCHANGED <<displayFrame, busVars>>

\* if(servoTurnedOn)
displayButton_servoTurnedOn ==
    /\ Running
    /\ dpc = "servoTurnedOn"
    /\ dpc' = IF servoTurnedOn THEN "writeSmileyFace" ELSE "displayMode"
    /\ iterLog' = Append(iterLog, IF servoTurnedOn THEN "busy" ELSE "idle")
    /\ faceSeen' = (faceSeen \/ servoTurnedOn)
    /\ UNCHANGED <<mode, matrix, buttonVars>>
    /\ UNCHANGED <<displayFrame, busVars>>

\* writeSmileyFace(); sleepForMs(5000);
displayButton_writeSmileyFace ==
    /\ Running
    /\ dpc = "writeSmileyFace"
    /\ matrix' = "face"
    /\ regs' = writeI2cReg_rest("face", drow)
    /\ i2cFileDescs' = initI2cBus_before(drow)
    /\ drow' = 0
    /\ iterLog' = Append(iterLog, "face")
    /\ dpc' = "displayMode"
    /\ UNCHANGED <<mode, faceSeen, buttonVars, srow>>
    /\ UNCHANGED displayFrame

\* the label rendered only in the else of if(servoTurnedOn)
displayButton_displayMode_else ==
    /\ Running
    /\ dpc = "displayMode"
    /\ IF mode \in {0, 1, 2} /\ iterLog = << "idle" >>
       THEN /\ matrix' = modeLabel(mode)
            /\ regs' = writeI2cReg_rest(modeLabel(mode), drow)
            /\ i2cFileDescs' = initI2cBus_before(drow)
            /\ iterLog' = Append(iterLog, modeLabel(mode))
       ELSE UNCHANGED <<matrix, regs, iterLog, i2cFileDescs>>
    /\ drow' = 0
    /\ dpc' = "while"
    /\ UNCHANGED <<mode, faceSeen, buttonVars, srow>>
    /\ UNCHANGED displayFrame

\* if(mode == 0) displayMode("M0"); else if ... ; sleepForMs(100);
\* (mode is written by this thread alone, so the three reads agree)
displayButton_displayMode ==
    /\ Running
    /\ dpc = "displayMode"
    /\ IF mode \in {0, 1, 2}
       THEN /\ matrix' = modeLabel(mode)
            /\ regs' = writeI2cReg_rest(modeLabel(mode), drow)
            /\ i2cFileDescs' = initI2cBus_before(drow)
            /\ iterLog' = Append(iterLog, modeLabel(mode))
       ELSE UNCHANGED <<matrix, regs, iterLog, i2cFileDescs>>
    /\ drow' = 0
    /\ dpc' = "while"
    /\ UNCHANGED <<mode, faceSeen, buttonVars, srow>>
    /\ UNCHANGED displayFrame

(***************************************************************************)
(* Matrix renderer: the glyph table, displayMatrix, logicalFrame and the   *)
(* register writes of the display operations.  A char or unsigned char is  *)
(* its 8-bit pattern 0..255; row i of the source (0..7) is index i + 1.    *)
(***************************************************************************)
Rows == 1..numberOfMatrixRows

RECURSIVE BitOr(_, _)
\* a | b on non-negative integers
BitOr(a, b) ==
    IF a = 0 THEN b
    ELSE IF b = 0 THEN a
    ELSE (IF a % 2 = 1 \/ b % 2 = 1 THEN 1 ELSE 0) + 2 * BitOr(a \div 2, b \div 2)

\* static matrixData matrix[]: digit, rowBitArr, cols (no entry with digit EMPTY ends it)
matrixData ==
    << [digit |-> " ", rowBitArr |-> << 0, 0, 0, 0, 0, 0, 0, 0 >>, cols |-> 4],
       [digit |-> "0", rowBitArr |-> << 32, 80, 80, 80, 80, 80, 32, 0 >>, cols |-> 4],
       [digit |-> "1", rowBitArr |-> << 32, 48, 32, 32, 32, 32, 112, 0 >>, cols |-> 4],
       [digit |-> "2", rowBitArr |-> << 32, 80, 64, 32, 32, 16, 112, 0 >>, cols |-> 4],
       [digit |-> "3", rowBitArr |-> << 48, 64, 64, 112, 64, 64, 48, 0 >>, cols |-> 4],
       [digit |-> "4", rowBitArr |-> << 64, 96, 80, 80, 112, 64, 64, 0 >>, cols |-> 4],
       [digit |-> "5", rowBitArr |-> << 112, 16, 16, 112, 64, 80, 32, 0 >>, cols |-> 4],
       [digit |-> "6", rowBitArr |-> << 96, 16, 16, 48, 80, 80, 32, 0 >>, cols |-> 4],
       [digit |-> "7", rowBitArr |-> << 112, 64, 64, 64, 32, 32, 32, 0 >>, cols |-> 4],
       [digit |-> "8", rowBitArr |-> << 32, 80, 80, 32, 80, 80, 32, 0 >>, cols |-> 4],
       [digit |-> "9", rowBitArr |-> << 32, 80, 80, 96, 64, 64, 48, 0 >>, cols |-> 4],
       [digit |-> ".", rowBitArr |-> << 0, 0, 0, 0, 0, 0, 0, 64 >>, cols |-> 1],
       [digit |-> "M", rowBitArr |-> << 80, 112, 112, 80, 80, 80, 80, 0 >>, cols |-> 4] >>

\* the symbols of the table, and the symbols a text may hold ("A" has no entry)
TableSymbols == {matrixData[i].digit : i \in 1..Len(matrixData)}

Symbols == TableSymbols \cup {"A"}

Texts == UNION {[1..n -> Symbols] : n \in 0..MaxText}

\* what the memory after the table may hold where the search reads an entry
StrayData(objectMatrix) ==
    { [digit |-> objectMatrix, rowBitArr |-> [i \in Rows |-> 127], cols |-> 4],
      [digit |-> objectMatrix, rowBitArr |-> [i \in Rows |-> 0], cols |-> 1] }

\* the matrixData* a search returns when it returns NULL
NullData == [digit |-> "", rowBitArr |-> << >>, cols |-> 0]

\* searchForHexData: the outcomes of the search.  The loop ends at an entry
\* whose digit is EMPTY; the table has none, so a search for a symbol without
\* an entry reads matrix[13] and on, outside the array: it may find a zero
\* byte (NULL), a byte equal to the symbol (a stray entry) or unmapped memory.
searchForHexData(objectMatrix) ==
    LET hits == {i \in 1..Len(matrixData) : matrixData[i].digit = objectMatrix}
        first == CHOOSE i \in hits : \A j \in hits : i <= j
    IN  IF hits # {}
        THEN { [ret |-> "entry", data |-> matrixData[first], examined |-> first] }
        ELSE { [ret |-> "NULL", data |-> NullData, examined |-> Len(matrixData) + 1],
               [ret |-> "SIGSEGV", data |-> NullData, examined |-> Len(matrixData) + 1] }
             \cup { [ret |-> "stray", data |-> e, examined |-> Len(matrixData) + 1] :
                       e \in StrayData(objectMatrix) }

\* shiftLeftOnMatrixBy: >> for a shift amount >= 0, << (kept to 8 bits) below 0
shiftLeftOnMatrixBy(shiftAmountInBytes, rowValue) ==
    IF shiftAmountInBytes >= 0
    THEN rowValue \div (2 ^ shiftAmountInBytes)
    ELSE (rowValue * (2 ^ (0 - shiftAmountInBytes))) % 256

\* warpFrame with the bit shifted out dropped
warpFrame_noWrap(logicalFrame) == (logicalFrame \div 2) % 256

\* warpFrame: (logicalFrame >> 1) | (logicalFrame << 7), kept to 8 bits
warpFrame(logicalFrame) == BitOr(logicalFrame \div 2, logicalFrame * 128) % 256

\* writeMatrixByBytes: value j goes to register 2 * j, j = 0..7
writeMatrixByBytes(physicalFrameValues) ==
    [j \in Rows |-> [reg |-> 2 * (j - 1), val |-> physicalFrameValues[j]]]

\* clearDisplay: for(i = 0; i < 16; i += 2) writeI2cReg(fd, i, 0x00)
clearDisplay_writes == [j \in Rows |-> [reg |-> 2 * (j - 1), val |-> 0]]

\* displayMode: snprintf(buff, 10, "%s", c) keeps at most nine symbols
displayMode(c) == SubSeq(c, 1, IF Len(c) < 9 THEN Len(c) ELSE 9)

\* the symbol displayMatrix looks at: *display, or ' ' at the end of the text
current == IF display # << >> THEN Head(display) ELSE " "

\* memset(logicalFrameArr, EMPTY, 8) left out
displayMatrix_begin_noMemset ==
    /\ rpc = "displayMatrix"
    /\ \E found \in searchForHexData(current) :
          /\ examined' = IF found.examined > examined THEN found.examined ELSE examined
          /\ IF found.ret \in {"entry", "stray"}
             THEN /\ charRowByRowBits' = found.data.rowBitArr
                  /\ charCurrentColumns' = found.data.cols
                  /\ rpc' = "for"
             ELSE /\ rpc' = "SIGSEGV"
                  /\ UNCHANGED <<charRowByRowBits, charCurrentColumns>>
    /\ col' = 0
    /\ UNCHANGED <<logicalFrameArr, text, display, physicalFrameArr, i2cLog, warpArg, warpRet>>
    /\ UNCHANGED <<progVars, i2cFileDescs>>

\* displayMatrix up to its loop: memset, the first symbol looked up (and not
\* consumed), callMatrixObject, col = 0.  callMatrixObject(NULL) reads
\* through the null pointer.
displayMatrix_begin ==
    /\ rpc = "displayMatrix"
    /\ logicalFrameArr' = [i \in Rows |-> 0]
    /\ \E found \in searchForHexData(current) :
          /\ examined' = IF found.examined > examined THEN found.examined ELSE examined
          /\ IF found.ret \in {"entry", "stray"}
             THEN /\ charRowByRowBits' = found.data.rowBitArr
                  /\ charCurrentColumns' = found.data.cols
                  /\ rpc' = "for"
             ELSE /\ rpc' = "SIGSEGV"
                  /\ UNCHANGED <<charRowByRowBits, charCurrentColumns>>
    /\ col' = 0
    /\ UNCHANGED <<text, display, physicalFrameArr, i2cLog, warpArg, warpRet>>
    /\ UNCHANGED <<progVars, i2cFileDescs>>

\* the loop of displayMatrix with the test col <= 8
displayMatrix_for_lte ==
    /\ rpc = "for"
    /\ IF col <= numberOfMatrixCols
       THEN /\ display' = IF display # << >> THEN Tail(display) ELSE display
            /\ \E found \in searchForHexData(current) :
                  /\ examined' = IF found.examined > examined THEN found.examined ELSE examined
                  /\ IF found.ret \in {"entry", "stray"}
                     THEN /\ charRowByRowBits' = found.data.rowBitArr
                          /\ charCurrentColumns' = found.data.cols
                          /\ logicalFrameArr' =
                                [i \in Rows |->
                                    BitOr(logicalFrameArr[i],
                                          shiftLeftOnMatrixBy(numberOfMatrixCols - found.data.cols - col,
                                                              found.data.rowBitArr[i]))]
                          /\ col' = col + found.data.cols
                          /\ rpc' = "for"
                     ELSE /\ rpc' = "SIGSEGV"
                          /\ UNCHANGED <<charRowByRowBits, charCurrentColumns, logicalFrameArr, col>>
       ELSE /\ rpc' = "logicalFrame"
            /\ UNCHANGED <<display, examined, charRowByRowBits, charCurrentColumns,
                           logicalFrameArr, col>>
    /\ UNCHANGED <<text, physicalFrameArr, i2cLog, warpArg, warpRet>>
    /\ UNCHANGED <<progVars, i2cFileDescs>>

\* one pass of for(col = 0; col < 8; col += charCurrentColumns): the next
\* symbol is consumed (a blank once the text has ended), looked up, and its
\* rows are shifted by 8 - charCurrentColumns - col and or-ed into the frame
displayMatrix_for ==
    /\ rpc = "for"
    /\ IF col < numberOfMatrixCols
       THEN /\ display' = IF display # << >> THEN Tail(display) ELSE display
            /\ \E found \in searchForHexData(current) :
                  /\ examined' = IF found.examined > examined THEN found.examined ELSE examined
                  /\ IF found.ret \in {"entry", "stray"}
                     THEN /\ charRowByRowBits' = found.data.rowBitArr
                          /\ charCurrentColumns' = found.data.cols
                          /\ logicalFrameArr' =
                                [i \in Rows |->
                                    BitOr(logicalFrameArr[i],
                                          shiftLeftOnMatrixBy(numberOfMatrixCols - found.data.cols - col,
                                                              found.data.rowBitArr[i]))]
                          /\ col' = col + found.data.cols
                          /\ rpc' = "for"
                     ELSE /\ rpc' = "SIGSEGV"
                          /\ UNCHANGED <<charRowByRowBits, charCurrentColumns, logicalFrameArr, col>>
       ELSE /\ rpc' = "logicalFrame"
            /\ UNCHANGED <<display, examined, charRowByRowBits, charCurrentColumns,
                           logicalFrameArr, col>>
    /\ UNCHANGED <<text, physicalFrameArr, i2cLog, warpArg, warpRet>>
    /\ UNCHANGED <<progVars, i2cFileDescs>>

\* logicalFrame: every row through warpFrame, then writeMatrixByBytes
logicalFrame ==
    /\ rpc = "logicalFrame"
    /\ physicalFrameArr' = [i \in Rows |-> warpFrame(logicalFrameArr[i])]
    /\ i2cLog' = writeMatrixByBytes(physicalFrameArr')
    /\ rpc' = "done"
    /\ UNCHANGED <<text, display, col, logicalFrameArr, charRowByRowBits,
                   charCurrentColumns, examined, warpArg, warpRet>>
    /\ i2cFileDescs' = initI2cBus
    /\ UNCHANGED progVars

\* clearDisplay: its eight register writes
clearDisplay ==
    /\ rpc = "clearDisplay"
    /\ i2cLog' = clearDisplay_writes
    /\ rpc' = "cleared"
    /\ UNCHANGED <<text, display, col, logicalFrameArr, physicalFrameArr,
                   charRowByRowBits, charCurrentColumns, examined, warpArg, warpRet>>
    /\ i2cFileDescs' = initI2cBus
    /\ UNCHANGED progVars

\* warpFrame applied to one byte
warpFrame_call ==
    /\ rpc = "warpFrame"
    /\ warpRet' = warpFrame(warpArg)
    /\ rpc' = "returned"
    /\ UNCHANGED <<text, display, col, logicalFrameArr, physicalFrameArr,
                   charRowByRowBits, charCurrentColumns, examined, i2cLog, warpArg>>
    /\ UNCHANGED <<progVars, i2cFileDescs>>

\* the renderer at rest: no display operation of its own in progress
RenderIdle ==
    /\ rpc = "idle"
    /\ text = << >>
    /\ display = << >>
    /\ col = 0
    /\ logicalFrameArr = [i \in Rows |-> 0]
    /\ physicalFrameArr = [i \in Rows |-> 0]
    /\ charRowByRowBits = << >>
    /\ charCurrentColumns = 0
    /\ examined = 0
    /\ i2cLog = << >>
    /\ warpArg = NoByte
    /\ warpRet = NoByte

\* the logical frame displayMatrix leaves after "M0"
frame_M0 == << 37, 87, 87, 85, 85, 85, 37, 0 >>

\* a call of displayMode(text) or of clearDisplay(), entered with the logical
\* frame of an earlier call still in logicalFrameArr
InitRender ==
    /\ ProgramInit
    /\ rpc \in {"displayMatrix", "clearDisplay"}
    /\ text \in (IF rpc = "displayMatrix" THEN Texts ELSE {<< >>})
    /\ display = displayMode(text)
    /\ col = 0
    /\ logicalFrameArr \in {[i \in Rows |-> 0], frame_M0}
    /\ physicalFrameArr = [i \in Rows |-> warpFrame(logicalFrameArr[i])]
    /\ charRowByRowBits = << >>
    /\ charCurrentColumns = 0
    /\ examined = 0
    /\ i2cLog = << >>
    /\ warpArg = NoByte
    /\ warpRet = NoByte

NextRender ==
    \/ displayMatrix_begin
    \/ displayMatrix_for
    \/ logicalFrame
    \/ clearDisplay

SpecRender == InitRender /\ [][NextRender]_vars

\* a call of warpFrame on any byte
InitWarp ==
    /\ ProgramInit
    /\ rpc = "warpFrame"
    /\ text = << >>
    /\ display = << >>
    /\ col = 0
    /\ logicalFrameArr = [i \in Rows |-> 0]
    /\ physicalFrameArr = [i \in Rows |-> 0]
    /\ charRowByRowBits = << >>
    /\ charCurrentColumns = 0
    /\ examined = 0
    /\ i2cLog = << >>
    /\ warpArg \in 0..255
    /\ warpRet = NoByte

NextWarp == warpFrame_call

SpecWarp == InitWarp /\ [][NextWarp]_vars

\* the program after startup, the renderer at rest
Init == ProgramInit /\ RenderIdle

\* every step of the program but a delivery of the inference callback
Threads_step ==
    \/ picovoice_main_return
    \/ display_stopButton_set
    \/ display_stopButton_join
    \/ \E t \in Threads : turningServoMotor_while(t)
    \/ \E t \in Threads : turningServoMotor_if0(t)
    \/ \E t \in Threads : turningServoMotor_if1(t)
    \/ \E t \in Threads : turningServoMotor_if2(t)
    \/ \E t \in Threads : turningServoMotor_profile(t)
    \/ \E t \in Threads : turningServoMotor_clearDisplay(t)
    \/ \E t \in Threads : turningServoMotor_servoTurnedOn(t)
    \/ \E t \in Threads : turningServoMotor_sleepForMs(t)
    \/ \E t \in Threads : stop_stopServo(t)
    \/ \E t \in Threads : stop_stopServo_join(t)
    \/ displayButton_while
    \/ displayButton_clearDisplay
    \/ displayButton_yellowButtonPressed
    \/ displayButton_debounce
    \/ displayButton_switchMode
    \/ displayButton_servoTurnedOn
    \/ displayButton_writeSmileyFace
    \/ displayButton_displayMode

\* the program: the recognition library may deliver an inference at any time
Next ==
    \/ \E u \in BOOLEAN : inference_callback(u)
    \/ Threads_step

\* the program when an understood inference arrives only while no servo
\* thread is live (no release cycle in flight)
NextIdle ==
    \/ \E u \in BOOLEAN :
          /\ u => \A t \in Threads : ~Live(t)
          /\ inference_callback(u)
    \/ Threads_step

Spec == Init /\ [][Next]_vars

SpecIdle == Init /\ [][NextIdle]_vars

\* the steps of the display thread that do not wait for the button: the wait
\* while(yellowButtonPressed()){} ends when the button is read released, which
\* is up to the button and not to the scheduler (a pressed read there leaves
\* the thread where it is)
displayButton_step ==
    \/ displayButton_while
    \/ displayButton_clearDisplay
    \/ displayButton_yellowButtonPressed
    \/ displayButton_switchMode
    \/ displayButton_servoTurnedOn
    \/ displayButton_writeSmileyFace
    \/ displayButton_displayMode

\* the steps of servo thread t
turningServoMotor_step(t) ==
    \/ turningServoMotor_while(t)
    \/ turningServoMotor_if0(t)
    \/ turningServoMotor_if1(t)
    \/ turningServoMotor_if2(t)
    \/ turningServoMotor_profile(t)
    \/ turningServoMotor_clearDisplay(t)
    \/ turningServoMotor_servoTurnedOn(t)
    \/ turningServoMotor_sleepForMs(t)
    \/ stop_stopServo(t)
    \/ stop_stopServo_join(t)

\* the steps of main from display_stopButton on
display_stopButton_step == display_stopButton_set \/ display_stopButton_join

\* SpecIdle under a fair scheduler: a thread that can take a step does so in
\* the end (the end of the recognition loop, caused by a signal, and the
\* release of the button are not forced)
SpecFair ==
    /\ Init /\ [][NextIdle]_vars
    /\ WF_vars(displayButton_step)
    /\ WF_vars(display_stopButton_step)
    /\ \A t \in Threads : WF_vars(turningServoMotor_step(t))


(***************************************************************************)
(* Startup: main from its first statement to display_startButton.          *)
(***************************************************************************)
bootFrame == <<mode, ncalls, inference, stopButton, matrix, servoVars, buttonVars,
               iterLog, renderVars, regs, drow, srow, failure>>

\* configureI2C(): two config-pin commands (runCommand reports a failed one and goes on)
main_configureI2C ==
    /\ mpc = "configureI2C"
    /\ mpc' = "initializeStartRegisters"
    /\ UNCHANGED <<dpc, exportLog, setupLog, i2cFileDescs, bootFrame>>

\* initializeStartRegisters()
main_initializeStartRegisters ==
    /\ mpc = "initializeStartRegisters"
    /\ setupLog' = setupLog \o initializeStartRegisters_writes
    /\ mpc' = "configureAllPins"
    /\ i2cFileDescs' = initI2cBus
    /\ UNCHANGED <<dpc, exportLog, bootFrame>>

\* configureAllPins(): eight config-pin commands
main_configureAllPins ==
    /\ mpc = "configureAllPins"
    /\ mpc' = "initI2cBus"
    /\ UNCHANGED <<dpc, exportLog, setupLog, i2cFileDescs, bootFrame>>

\* int i2cFileDesc = initI2cBus(I2CDRV_LINUX_BUS1, I2C_DEVICE_ADDRESS);
main_initI2cBus ==
    /\ mpc = "initI2cBus"
    /\ mpc' = "exportYellowButton"
    /\ i2cFileDescs' = initI2cBus
    /\ UNCHANGED <<dpc, exportLog, setupLog, bootFrame>>

\* exportYellowButton()
main_exportYellowButton ==
    /\ mpc = "exportYellowButton"
    /\ exportLog' = Append(exportLog, exportYellowButton_text)
    /\ mpc' = "display_startButton"
    /\ UNCHANGED <<dpc, setupLog, i2cFileDescs, bootFrame>>

\* the display thread created before the button pin is exported
display_startButton_early ==
    /\ mpc = "exportYellowButton"
    /\ dpc' = "while"
    /\ mpc' = "listen"
    /\ UNCHANGED <<exportLog, setupLog, i2cFileDescs, bootFrame>>

\* display_startButton(): pthread_create(&threadButton, NULL, displayButton, NULL)
display_startButton ==
    /\ mpc = "display_startButton"
    /\ dpc' = "while"
    /\ mpc' = "listen"
    /\ UNCHANGED <<exportLog, setupLog, i2cFileDescs, bootFrame>>

(***************************************************************************)
(* Hardware operations that fail.                                          *)
(***************************************************************************)
\* exit(1) / exit(-1) after a failed operation: the process ends
exit_failed(what) ==
    /\ mpc' = "exit"
    /\ failure' = IF failure = "none" THEN what ELSE failure
    /\ UNCHANGED <<mode, ncalls, inference, stopButton, matrix, servoVars, buttonVars,
                   displayVars, renderVars, busVars, exportLog, setupLog>>

\* main: initI2cBus's ioctl (or the open before it) or a writeI2cReg fails
main_i2c_fail ==
    /\ mpc \in {"initializeStartRegisters", "initI2cBus"}
    /\ exit_failed("i2c")

\* main: writingToGPIO cannot open the export file
writingToGPIO_fail ==
    /\ mpc = "exportYellowButton"
    /\ exit_failed("writingToGPIO")

\* display thread: initI2cBus or writeI2cReg fails in a display operation
displayButton_i2c_fail ==
    /\ Running
    /\ dpc \in {"clearDisplay", "writeSmileyFace", "displayMode"}
    /\ exit_failed("i2c")

\* display thread: readButton cannot open the value file
readButton_fail ==
    /\ Running
    /\ dpc \in {"yellowButtonPressed", "debounce"}
    /\ exit_failed("readButton")

\* servo thread: initI2cBus or writeI2cReg fails in clearDisplay
turningServoMotor_i2c_fail(t) ==
    /\ Running
    /\ spc[t] = "clearDisplay"
    /\ exit_failed("i2c")

\* servo thread: a writeTo of the profile fails.  writeTo tests neither fopen
\* nor fprintf nor fclose: when the file cannot be opened fprintf is handed a
\* null FILE* (the process is killed); when the driver rejects the value the
\* error shows at fclose, is dropped, and the profile goes on.
writeTo_fail(t) ==
    /\ Running
    /\ spc[t] = "profile"
    /\ todo[t] # << >>
    /\ Head(todo[t]).op = "write"
    /\ \E outcome \in {"SIGSEGV", "dropped"} :
          IF outcome = "SIGSEGV"
          THEN exit_failed("writeTo")
          ELSE /\ failure' = IF failure = "none" THEN "writeTo" ELSE failure
               /\ todo' = [todo EXCEPT ![t] = Tail(todo[t])]
               /\ spc' = IF Tail(todo[t]) = << >>
                         THEN [spc EXCEPT ![t] = "clearDisplay"] ELSE spc
               /\ pwmLog' = IF soloT = t THEN Append(pwmLog, Head(todo[t])) ELSE pwmLog
               /\ UNCHANGED <<stopServo, servoTurnedOn, threadServo, dmode, cycles, soloT,
                              faceSeen, pwm, matrix, mode, buttonVars, displayVars,
                              mpc, ncalls, inference, stopButton, renderVars, busVars,
                              exportLog, setupLog>>

\* main at its first statement: no thread created, nothing written yet
InitBoot ==
    /\ StaticsInit
    /\ i2cFileDescs = 0
    /\ dpc = "none"
    /\ mpc = "configureI2C"
    /\ exportLog = << >>
    /\ setupLog = << >>
    /\ RenderIdle

\* the process from the start of main
NextBoot ==
    \/ main_configureI2C
    \/ main_initializeStartRegisters
    \/ main_configureAllPins
    \/ main_initI2cBus
    \/ main_exportYellowButton
    \/ display_startButton
    \/ NextIdle

SpecBoot == InitBoot /\ [][NextBoot]_vars

\* the process from the start of main, on hardware that may fail
NextIO ==
    \/ main_i2c_fail
    \/ writingToGPIO_fail
    \/ displayButton_i2c_fail
    \/ readButton_fail
    \/ \E t \in Threads : turningServoMotor_i2c_fail(t)
    \/ \E t \in Threads : writeTo_fail(t)
    \/ NextBoot

SpecIO == InitBoot /\ [][NextIO]_vars

(***************************************************************************)
(* The display operations write by write: a clearDisplay, writeSmileyFace  *)
(* or writeMatrixByBytes is eight calls of writeI2cReg, and another thread *)
(* may run between two of them.  The steps below make the first seven      *)
(* writes of an operation one at a time; the step of the operation itself  *)
(* (above) makes the writes that are left and goes on.                      *)
(***************************************************************************)
\* what the operation the display thread is at shows
displayButton_shown ==
    IF dpc = "clearDisplay" THEN "clear"
    ELSE IF dpc = "writeSmileyFace" THEN "face"
    ELSE modeLabel(mode)

\* display thread: the next writeI2cReg of clearDisplay, writeSmileyFace or
\* displayMode, not the last one
displayButton_writeI2cReg ==
    /\ Running
    /\ dpc \in {"clearDisplay", "writeSmileyFace", "displayMode"}
    /\ dpc = "displayMode" => mode \in {0, 1, 2}
    /\ drow < numberOfMatrixRows - 1
    /\ regs' = [regs EXCEPT ![drow + 1] = displayButton_shown]
    /\ i2cFileDescs' = initI2cBus_before(drow)
    /\ drow' = drow + 1
    /\ UNCHANGED <<mode, matrix, iterLog, dpc, faceSeen, buttonVars, srow>>
    /\ UNCHANGED displayFrame

\* servo thread t: the next writeI2cReg of its clearDisplay, not the last one
turningServoMotor_writeI2cReg(t) ==
    /\ Running
    /\ spc[t] = "clearDisplay"
    /\ srow[t] < numberOfMatrixRows - 1
    /\ regs' = [regs EXCEPT ![srow[t] + 1] = "clear"]
    /\ i2cFileDescs' = initI2cBus_before(srow[t])
    /\ srow' = [srow EXCEPT ![t] = srow[t] + 1]
    /\ UNCHANGED <<stopServo, servoTurnedOn, threadServo, spc, todo, dmode, cycles,
                   pwm, pwmLog, soloT, faceSeen, matrix, drow>>
    /\ UNCHANGED servoFrame

\* the program with the register writes of the display operations
\* interleaved, for one understood inference (one release cycle)
NextBus ==
    \/ displayButton_writeI2cReg
    \/ \E t \in Threads : turningServoMotor_writeI2cReg(t)
    \/ ncalls = 0 /\ inference_callback(TRUE)
    \/ Threads_step

SpecBus == Init /\ [][NextBus]_vars

(***************************************************************************)
(* Properties.                                                             *)
(***************************************************************************)
LiveThreads == {t \in Threads : Live(t)}

\* C1: at most one actuator control-loop thread is executing at any time,
\* whatever the interleaving of understood inferences with the control loop.
C1_SingleControlLoop == Cardinality(LiveThreads) <= 1

\* C2: every start() runs exactly one release cycle: a control loop that has
\* returned has gone through its loop body once, not zero times and not twice.
C2_ExactlyOneCycle == \A t \in Threads : spc[t] = "done" => cycles[t] = 1

\* C3: a hold pulse width that has been written is always followed by the
\* release pulse width; in particular the process never ends (main returning
\* after display_stopButton) with the actuator left at the hold pulse width.
C3_ReleaseFollowsHold == (mpc = "exit") => pwm.duty_cycle # DUTY_HOLD

\* the PWM writes and waits the claim C4 gives for a cycle dispatched in mode m
C4_Mode0Sequence ==
    << [op |-> "write", attr |-> "period", val |-> 20000000],
       [op |-> "write", attr |-> "enable", val |-> 1],
       [op |-> "write", attr |-> "duty_cycle", val |-> 2000000],
       [op |-> "sleep", attr |-> "ms", val |-> 1000],
       [op |-> "write", attr |-> "duty_cycle", val |-> 1000000] >>

C4_Mode2Sequence ==
    [C4_Mode0Sequence EXCEPT ![4] = [op |-> "sleep", attr |-> "ms", val |-> 10000]]

C4_Mode1Sequences ==
    { << [op |-> "sleep", attr |-> "ms", val |-> d * 1000] >> \o C4_Mode0Sequence
         \o << [op |-> "sleep", attr |-> "ms", val |-> 1000] >> : d \in Delays }

\* C4: a release cycle dispatched in mode m with no other cycle in flight
\* writes period, enable, the hold duty cycle, waits 1 s (mode 0) or 10 s
\* (mode 2), then writes the release duty cycle; in mode 1 the entered delay
\* comes first and the mode-0 sequence follows (the branch then waits one more
\* second); after its stop the loop finds stopServo set and returns.
C4_ProfileOrder ==
    \A t \in Threads :
       /\ (soloT = t /\ spc[t] = "clearDisplay" /\ dmode[t] = 0)
             => pwmLog = C4_Mode0Sequence
       /\ (soloT = t /\ spc[t] = "clearDisplay" /\ dmode[t] = 1)
             => pwmLog \in C4_Mode1Sequences
       /\ (soloT = t /\ spc[t] = "clearDisplay" /\ dmode[t] = 2)
             => pwmLog = C4_Mode2Sequence
       /\ (soloT = t /\ spc[t] = "profile")
             => \E k \in 0..7 : \E full \in {C4_Mode0Sequence, C4_Mode2Sequence} \cup C4_Mode1Sequences :
                   k <= Len(full) /\ pwmLog = SubSeq(full, 1, k)
       /\ (soloT = t /\ spc[t] = "while") => stopServo

C4_Witness ==
    \E t \in Threads :
       soloT = t /\ spc[t] = "clearDisplay" /\ dmode[t] = 2 /\ pwmLog = C4_Mode2Sequence

\* a step in which start() accepts a new cycle: a control-loop thread is created
C5_StartStep == \E t \in Threads : spc[t] = "none" /\ spc'[t] = "while"

\* a step in which a cycle that has run its profile and its settle delay stops
C5_StopStep == \E t \in Threads : spc[t] = "stop_stopServo" /\ spc'[t] = "pthread_join"

\* C5: the busy flag goes false -> true only in the step where start() accepts
\* a new cycle, and true -> false only after the profile and the settle delay
\* of the cycle have completed.
C5_BusyTransitions ==
    [][ /\ (~servoTurnedOn /\ servoTurnedOn') => C5_StartStep
        /\ (servoTurnedOn /\ ~servoTurnedOn') => C5_StopStep ]_vars

\* C6: one continuous press (N >= 1 consecutive pressed reads, then a released
\* read) advances mode exactly once, and only after the released read: while
\* the run lasts and until switchMode runs mode is what it was when the run
\* began, and from then on it is the successor of that value.
C6_Debounce ==
    /\ (lastRead = 1) => (mode = pressMode /\ dpc = "debounce" /\ runLen >= 1)
    /\ (dpc = "switchMode") => (lastRead = 0 /\ runLen >= 1 /\ mode = pressMode)
    /\ (lastRead = 0 /\ runLen >= 1 /\ dpc # "switchMode")
          => mode = (pressMode + 1) % 3

C6_Witness ==
    lastRead = 0 /\ runLen = 2 /\ dpc = "servoTurnedOn" /\ pressMode = 1 /\ mode = 2

\* C7: advance is the cyclic successor on {0, 1, 2}: mode stays in {0, 1, 2},
\* each advance takes 0 to 1, 1 to 2 and 2 to 0, one or two advances never
\* return to the value they started from and three always do.
C7_CyclicSuccessor ==
    /\ mode \in {0, 1, 2}
    /\ Len(modeTrail) >= 1 =>
          /\ << modeTrail[1], mode >> \in { <<0, 1>>, <<1, 2>>, <<2, 0>> }
          /\ mode # modeTrail[1]
    /\ Len(modeTrail) >= 2 => mode # modeTrail[2]
    /\ Len(modeTrail) = 3 => mode = modeTrail[3]

C7_Witness == modeTrail = << 1, 0, 2 >> /\ mode = 2

\* C8: mode is changed only by switchMode run by the display thread after a
\* debounced press; the trigger callback, start, the servo control loop, its
\* stop, the shutdown and the rendering steps leave it unchanged.
C8_ModeFrame ==
    [][ (mode' # mode) =>
           /\ dpc = "switchMode" /\ dpc' = "servoTurnedOn"
           /\ lastRead = 0 /\ runLen >= 1
           /\ UNCHANGED <<spc, mpc, ncalls, threadServo, stopServo, servoTurnedOn,
                          stopButton, matrix, pwm>> ]_vars

C8_Witness ==
    /\ mode = 1
    /\ matrix = "M1"
    /\ \E t \in Threads : spc[t] = "done" /\ cycles[t] = 1

C9_Labels == {"M0", "M1", "M2"}

\* C9 as claimed: in an iteration that read busy true the face is shown and no
\* label is rendered; otherwise exactly one label, "M" and the mode, is rendered.
C9_FaceOrLabel ==
    /\ (iterLog # << >> /\ iterLog[1] = "busy")
          => /\ \A i \in 1..Len(iterLog) : iterLog[i] \notin C9_Labels
             /\ (dpc = "while" => iterLog = << "busy", "face" >>)
    /\ (iterLog # << >> /\ iterLog[1] = "idle" /\ dpc = "while")
          => iterLog = << "idle", "M" \o ToString(mode) >>

\* C9 amended: every iteration renders exactly one label, "M" followed by the
\* current mode; an iteration that read busy true shows the face first and
\* renders the label after it, one that read busy false shows no face.
C9_FaceThenLabel ==
    /\ (dpc = "while" /\ iterLog # << >>)
          => \/ iterLog = << "busy", "face", "M" \o ToString(mode) >>
             \/ iterLog = << "idle", "M" \o ToString(mode) >>
    /\ (dpc = "displayMode")
          => iterLog \in { << "busy", "face" >>, << "idle" >> }
    /\ (dpc = "writeSmileyFace") => iterLog = << "busy" >>

C9_Witness == dpc = "while" /\ iterLog = << "busy", "face", "M1" >> /\ matrix = "M1"

\* C10: while the display loop runs, the busy window raised at the end of a
\* cycle is observed by the display loop (which then shows the face) before
\* busy is cleared.
C10_FaceShownEachCycle ==
    [][ (servoTurnedOn /\ ~servoTurnedOn' /\ ~stopButton /\ dpc # "done")
           => faceSeen ]_vars

\* the control-loop threads a step creates
C11_Started == {t \in Threads : spc[t] = "none" /\ spc'[t] # "none"}

\* C11: a delivery of the inference callback calls start() exactly once when
\* the inference was understood (one control-loop thread is created, made the
\* current one, and the stop request is cleared); when it was not understood
\* no thread is created and the busy flag, the stop request, the current
\* thread and every control loop are left as they were.
C11_StartIffUnderstood ==
    [][ (ncalls' # ncalls) =>
           IF inference' = "understood"
           THEN /\ Cardinality(C11_Started) = 1
                /\ \A t \in C11_Started : spc'[t] = "while" /\ threadServo' = t
                /\ \A t \in Threads \ C11_Started : spc'[t] = spc[t]
                /\ stopServo' = FALSE
           ELSE /\ inference' = "not_understood"
                /\ UNCHANGED <<servoTurnedOn, stopServo, threadServo, spc, todo, pwm>> ]_vars

C11_Witness ==
    /\ ncalls = 2
    /\ inference = "not_understood"
    /\ Cardinality({t \in Threads : spc[t] # "none"}) = 1

\* the table entry of a symbol that has one
C12_Glyph(s) == matrixData[CHOOSE i \in 1..Len(matrixData) : matrixData[i].digit = s]

RECURSIVE C12_Column(_, _)
\* the running column of glyph k of text t: the widths before it, added up
C12_Column(t, k) ==
    IF k = 1 THEN 0 ELSE C12_Column(t, k - 1) + C12_Glyph(t[k - 1]).cols

C12_TotalWidth(t) == C12_Column(t, Len(t) + 1)

RECURSIVE C12_PopCount(_)
C12_PopCount(b) == IF b = 0 THEN 0 ELSE (b % 2) + C12_PopCount(b \div 2)

\* row r of glyph k of text t, shifted (to the right) by 8 - width - column
C12_Placed(t, k, r) ==
    C12_Glyph(t[k]).rowBitArr[r]
       \div (2 ^ (numberOfMatrixCols - C12_Glyph(t[k]).cols - C12_Column(t, k)))

RECURSIVE C12_OrOfGlyphs(_, _, _)
C12_OrOfGlyphs(t, k, r) ==
    IF k = 0 THEN 0 ELSE BitOr(C12_OrOfGlyphs(t, k - 1, r), C12_Placed(t, k, r))

\* C12: for a text over the symbols of the glyph table of total width <= 8,
\* row r of the frame is the OR over the glyphs of rows[r] shifted by
\* 8 - width - c, every glyph has all its lit pixels in the frame (none is
\* shifted out) and they lie in its own columns c .. c + width - 1 (column j
\* is bit j of the row), not in those of another glyph.
C12_GlyphsAtSpans ==
    (/\ rpc = "done"
     /\ \A k \in 1..Len(text) : text[k] \in TableSymbols
     /\ C12_TotalWidth(text) <= numberOfMatrixCols)
    => \A r \in Rows :
          /\ logicalFrameArr[r] = C12_OrOfGlyphs(text, Len(text), r)
          /\ \A k \in 1..Len(text) :
                LET c == C12_Column(text, k)
                    w == C12_Glyph(text[k]).cols
                    placed == C12_Placed(text, k, r)
                IN  /\ C12_PopCount(placed) = C12_PopCount(C12_Glyph(text[k]).rowBitArr[r])
                    /\ placed % (2 ^ c) = 0
                    /\ placed \div (2 ^ c) < 2 ^ w

C13_Bit(b, i) == (b \div (2 ^ i)) % 2

\* C13: the physical-row transform is the 8-bit rotate right by one: for every
\* byte b the result is ((b >> 1) | (b << 7)) mod 256, bit i of it is bit
\* i + 1 (mod 8) of b, 1 goes to 128 and 0 to 0, and rotating the result left
\* by one gives b back.
C13_RotateRight ==
    (rpc = "returned") =>
       /\ warpRet \in 0..255
       /\ warpRet = ((warpArg \div 2) + (warpArg * 128)) % 256
       /\ \A i \in 0..7 : C13_Bit(warpRet, i) = C13_Bit(warpArg, (i + 1) % 8)
       /\ ((warpRet * 2) % 256) + (warpRet \div 128) = warpArg
       /\ (warpArg = 1) => (warpRet = 128)
       /\ (warpArg = 0) => (warpRet = 0)

C13_Witness == rpc = "returned" /\ warpArg = 1 /\ warpRet = 128

\* zero written to the eight row registers 0, 2, ..., 14, in that order
C14_ZeroWrites ==
    << [reg |-> 0, val |-> 0], [reg |-> 2, val |-> 0], [reg |-> 4, val |-> 0],
       [reg |-> 6, val |-> 0], [reg |-> 8, val |-> 0], [reg |-> 10, val |-> 0],
       [reg |-> 12, val |-> 0], [reg |-> 14, val |-> 0] >>

\* C14: rendering the empty text leaves an all-zero frame and writes to the
\* eight row registers what clearDisplay writes: zero to each of them.
C14_EmptyIsClear ==
    /\ (rpc = "done" /\ text = << >>)
          => /\ \A r \in Rows : logicalFrameArr[r] = 0
             /\ i2cLog = C14_ZeroWrites
    /\ (rpc = "cleared") => i2cLog = C14_ZeroWrites

C14_Witness == rpc = "done" /\ text = << >> /\ Len(i2cLog) = 8 /\ col = 8

\* symbols of the text displayMatrix has looked up so far
C15_LookedUp ==
    IF rpc \in {"for", "logicalFrame", "done", "SIGSEGV"}
    THEN {text[k] : k \in {j \in 1..Len(text) : j = 1 \/ j <= Len(text) - Len(display)}}
    ELSE {}

\* C15: the lookup of a symbol that has an entry yields that entry; the lookup
\* of a symbol without one examines the entries of the table and nothing else
\* and ends in the not-found outcome, and the render of such a text fails with
\* UnknownSymbolError: no glyph is used for the symbol and no frame is written.
C15_LookupDefined ==
    /\ (rpc = "for" /\ col = 0 /\ current \in TableSymbols)
          => /\ charRowByRowBits = C12_Glyph(current).rowBitArr
             /\ charCurrentColumns = C12_Glyph(current).cols
    /\ examined <= Len(matrixData)
    /\ (C15_LookedUp \ TableSymbols # {})
          => (rpc = "UnknownSymbolError" /\ i2cLog = << >>)

\* C19: every release cycle runs exactly one profile, that of one value of
\* mode read at the dispatch, even while the display loop advances mode: no
\* cycle is at its completion steps (display clear, busy raised, settle wait,
\* stop) without having taken one branch of the dispatch.
C19_OneProfilePerCycle ==
    \A t \in Threads :
       (spc[t] \in {"clearDisplay", "servoTurnedOn", "sleepForMs", "stop_stopServo",
                    "pthread_join"})
          => dmode[t] \in {0, 1, 2}

\* C18: once display_stopButton has set stopButton the display loop begins no
\* new iteration, and under fair scheduling the loop exits and
\* display_stopButton returns, whatever the button reads are.
C18_StopTerminates ==
    /\ [][ (stopButton /\ dpc = "while") => dpc' \in {"while", "done"} ]_vars
    /\ (stopButton ~> (dpc = "done" /\ mpc = "exit"))

\* C16: a hardware operation that fails (bus open or address claim, register
\* write, button value file open, PWM attribute write in a release sequence)
\* ends the process at that operation: from then on no hardware write (PWM
\* attribute, display register, export file) is made.
C16_FailureIsFatal ==
    [][ (failure # "none") => UNCHANGED <<pwm, matrix, regs, setupLog, exportLog>> ]_vars

\* C17: the startup actions are complete before the display loop starts: the
\* button pin is exported exactly once, before the first read of the button,
\* and the two setup registers of the display are written before any row
\* register is.
C17_StartupFirst ==
    /\ Len(exportLog) <= 1
    /\ (dpc # "none") =>
          /\ exportLog = << "27.000000" >>
          /\ setupLog = << [reg |-> 33, val |-> 0], [reg |-> 129, val |-> 0] >>
    /\ (lastRead # NoRead) => Len(exportLog) = 1
    /\ (matrix # "unset" \/ \E i \in 1..8 : regs[i] # "unset") => Len(setupLog) = 2

C17_Witness ==
    /\ lastRead = 1
    /\ matrix = "clear"
    /\ exportLog = << "27.000000" >>
    /\ Len(setupLog) = 2
    /\ failure = "none"

\* the threads that have written some and not all row registers of a display operation
C20_MidOperation ==
    (IF drow > 0 THEN {NoThread} ELSE {}) \cup {t \in Threads : srow[t] > 0}

\* C20: the eight row-register writes of a display operation are not
\* interleaved with those of a display operation of another thread: no two
\* threads are inside their eight writes at once, and whenever no operation
\* is in progress the eight registers hold the rows of one operation.
C20_RowWritesNotInterleaved ==
    /\ Cardinality(C20_MidOperation) <= 1
    /\ (C20_MidOperation = {}) => \A i \in 1..8 : regs[i] = regs[1]

\* symbols of the text displayMatrix has consumed
C23_Consumed == Len(text) - Len(display)

RECURSIVE C23_Frame(_, _, _)
\* row r of the frame the first k symbols of prefix t give, each shifted from
\* its running column
C23_Frame(t, k, r) ==
    IF k = 0 THEN 0
    ELSE BitOr(C23_Frame(t, k - 1, r),
               shiftLeftOnMatrixBy(numberOfMatrixCols - C12_Glyph(t[k]).cols - C12_Column(t, k),
                                   C12_Glyph(t[k]).rowBitArr[r]))

\* C23: the render consumes symbols left to right only while the running
\* column is below 8: a consumed symbol started at a column below 8, symbols
\* are left over only once the consumed ones fill the 8 columns, the
\* left-over symbols are not looked up (none of them, with or without a table
\* entry, makes the render fail), and the frame and the register writes are
\* those of the consumed prefix alone.
C23_ConsumedPrefix ==
    (/\ rpc \in {"for", "logicalFrame", "done", "SIGSEGV"}
     /\ \A k \in 1..C23_Consumed : text[k] \in TableSymbols
     /\ text # << >> => text[1] \in TableSymbols)
    => /\ display = SubSeq(text, C23_Consumed + 1, Len(text))
       /\ C23_Consumed > 0 => C12_Column(text, C23_Consumed) < numberOfMatrixCols
       /\ rpc # "SIGSEGV"
       /\ examined <= Len(matrixData)
       /\ (rpc \in {"logicalFrame", "done"} /\ display # << >>)
             => C12_Column(text, C23_Consumed + 1) >= numberOfMatrixCols
       /\ (rpc = "done")
             => /\ \A r \in Rows :
                      logicalFrameArr[r] = C23_Frame(SubSeq(text, 1, C23_Consumed), C23_Consumed, r)
                /\ i2cLog = [j \in Rows |->
                                [reg |-> 2 * (j - 1),
                                 val |-> warpFrame(C23_Frame(SubSeq(text, 1, C23_Consumed),
                                                             C23_Consumed, j))]]

C23_Witness ==
    /\ rpc = "done"
    /\ text = << "M", "0", "A" >>
    /\ display = << "A" >>
    /\ logicalFrameArr = frame_M0
    /\ examined <= Len(matrixData)

\* Idle: every control loop that was started has returned
C22_Idle == \A t \in Threads : ~Live(t)

\* C22: whenever no control loop is executing, servoTurnedOn is false and the
\* duty_cycle attribute holds the release pulse width 1000000, or was never
\* written; for every number and interleaving of inference callbacks.
C22_IdleIsReleased ==
    C22_Idle => /\ ~servoTurnedOn
                /\ pwm.duty_cycle \in {0, DUTY_RELEASE}

C22_Witness ==
    /\ C22_Idle
    /\ Cardinality({t \in Threads : spc[t] = "done" /\ cycles[t] >= 1}) >= 2
    /\ pwm.duty_cycle = DUTY_RELEASE
    /\ ~servoTurnedOn

\* display operations between their first and their last register write
C21_InProgress ==
    (IF drow > 0 THEN 1 ELSE 0) + Cardinality({t \in Threads : srow[t] > 0})

\* C21: the descriptor a display operation opens is released when the
\* operation finishes, so the descriptors open at any time are those main
\* opened at startup and one per display operation in progress: a constant
\* bound, however many display loop iterations and release cycles have run.
C21_HandlesReleased == i2cFileDescs <= main_i2cFileDescs + C21_InProgress

\* no step of the program gives a descriptor back
C21_NeverClosed == [][i2cFileDescs' >= i2cFileDescs]_vars

=============================================================================
